---- MODULE Spec2Model ----
(***************************************************************************)
(* Captcha solver adapters of flathunter: the submit-then-poll protocol of *)
(* ImageTyperzSolver and TwoCaptchaSolver.                                 *)
(*                                                                         *)
(* A text (an HTTP body, a job id, a token) is a sequence of tokens.  A    *)
(* token is one character ("a", ";", "|", "{", the double quote, ...) or a *)
(* word the adapters treat as a unit (a marker such as CAPCHA_NOT_READY, a *)
(* JSON key such as Status).                                               *)
(***************************************************************************)
EXTENDS Integers, Sequences, FiniteSets, TLC

\* ------------------------------------------------------------------ bounds

\* Longest injected payload value (a token, a GeeTest field), in tokens.
MaxLen == 1
\* Most 'pending' answers the simulated backend gives to one call.
MaxPending == 2
\* Attempt ceiling of the backoff policy (CaptchaSolver.backoff_options).
MaxTries == 2

\* sleep(5) between two polls
POLL_INTERVAL == 5

\* --------------------------------------------------------- text primitives

QUOTE == "\""
BACKSLASH == "\\"

\* str.startswith
StartsWith(text, prefix) ==
    /\ Len(text) >= Len(prefix)
    /\ SubSeq(text, 1, Len(prefix)) = prefix

\* The positions at which pat occurs in text.
Occurrences(text, pat) ==
    { i \in 1..(Len(text) - Len(pat) + 1) : SubSeq(text, i, i + Len(pat) - 1) = pat }

\* `pat in text`
Contains(text, pat) == Occurrences(text, pat) /= {}

SetMin(S) == CHOOSE x \in S : \A y \in S : x <= y

\* str.lower on one token: the letter-case variants of the word "error".
LowerTok(tok) ==
    IF tok \in {"ERROR", "Error", "error"} THEN "error" ELSE tok

\* str.lower
Lower(text) == [i \in 1..Len(text) |-> LowerTok(text[i])]

\* str.split(sep): the pieces between the leftmost non-overlapping occurrences.
RECURSIVE Split(_, _)
Split(text, sep) ==
    IF Contains(text, sep)
    THEN LET i == SetMin(Occurrences(text, sep))
         IN  <<SubSeq(text, 1, i - 1)>>
                 \o Split(SubSeq(text, i + Len(sep), Len(text)), sep)
    ELSE <<text>>

\* str.split(sep, 1): at most one cut, at the first occurrence.
SplitOnce(text, sep) ==
    IF Contains(text, sep)
    THEN LET i == SetMin(Occurrences(text, sep))
         IN  <<SubSeq(text, 1, i - 1), SubSeq(text, i + Len(sep), Len(text))>>
    ELSE <<text>>

\* ------------------------------------------------------------ JSON values

\* A parsed JSON value: a string (s), an object (keys ks with values vs, in
\* document order) or an array (items vs).
JStr(text) == [t |-> "str", s |-> text, ks |-> <<>>, vs |-> <<>>]
JObj(keys, vals) == [t |-> "obj", s |-> <<>>, ks |-> keys, vs |-> vals]
JArr(items) == [t |-> "arr", s |-> <<>>, ks |-> <<>>, vs |-> items]
JNone == [t |-> "none", s |-> <<>>, ks |-> <<>>, vs |-> <<>>]

\* What an evaluation does: it returns v, raises the exception err, or (one
\* round of a poll loop) sleeps and goes round again.
Ok(v) == [act |-> "return", err |-> "", v |-> v]
Raise(e) == [act |-> "raise", err |-> e, v |-> JNone]
SleepAndContinue == [act |-> "sleep", err |-> "", v |-> JNone]

\* json.loads, scanning: a result is [ok, v, pos], pos the next unread token.
PFail == [ok |-> FALSE, v |-> JNone, pos |-> 0]
POk(v, pos) == [ok |-> TRUE, v |-> v, pos |-> pos]

\* The characters of a string literal from position i (after the opening
\* quote) to its closing quote; \" and \\ are the escapes.
RECURSIVE ScanString(_, _, _)
ScanString(text, i, acc) ==
    IF i > Len(text) THEN PFail
    ELSE IF text[i] = QUOTE THEN POk(JStr(acc), i + 1)
    ELSE IF text[i] = BACKSLASH
         THEN IF i + 1 <= Len(text) /\ text[i + 1] \in {QUOTE, BACKSLASH}
              THEN ScanString(text, i + 2, Append(acc, text[i + 1]))
              ELSE PFail
    ELSE ScanString(text, i + 1, Append(acc, text[i]))

RECURSIVE ScanValue(_, _), ScanMembers(_, _, _, _), ScanItems(_, _, _)
ScanValue(text, i) ==
    IF i > Len(text) THEN PFail
    ELSE IF text[i] = QUOTE THEN ScanString(text, i + 1, <<>>)
    ELSE IF text[i] = "{"
         THEN IF i + 1 <= Len(text) /\ text[i + 1] = "}"
              THEN POk(JObj(<<>>, <<>>), i + 2)
              ELSE ScanMembers(text, i + 1, <<>>, <<>>)
    ELSE IF text[i] = "["
         THEN IF i + 1 <= Len(text) /\ text[i + 1] = "]"
              THEN POk(JArr(<<>>), i + 2)
              ELSE ScanItems(text, i + 1, <<>>)
    ELSE PFail

\* "key": value, then "," and another member, or "}".
ScanMembers(text, i, keys, vals) ==
    IF i > Len(text) \/ text[i] /= QUOTE THEN PFail
    ELSE LET k == ScanString(text, i + 1, <<>>)
         IN  IF ~k.ok \/ k.pos > Len(text) \/ text[k.pos] /= ":" THEN PFail
             ELSE LET v == ScanValue(text, k.pos + 1)
                  IN  IF ~v.ok \/ v.pos > Len(text) THEN PFail
                      ELSE IF text[v.pos] = ","
                           THEN ScanMembers(text, v.pos + 1,
                                            Append(keys, k.v.s), Append(vals, v.v))
                      ELSE IF text[v.pos] = "}"
                           THEN POk(JObj(Append(keys, k.v.s), Append(vals, v.v)),
                                    v.pos + 1)
                      ELSE PFail

\* value, then "," and another item, or "]".
ScanItems(text, i, items) ==
    LET v == ScanValue(text, i)
    IN  IF ~v.ok \/ v.pos > Len(text) THEN PFail
        ELSE IF text[v.pos] = "," THEN ScanItems(text, v.pos + 1, Append(items, v.v))
        ELSE IF text[v.pos] = "]" THEN POk(JArr(Append(items, v.v)), v.pos + 1)
        ELSE PFail

\* json.loads(text): the value, or JSONDecodeError (also on trailing data).
JsonLoads(text) ==
    LET r == ScanValue(text, 1)
    IN  IF r.ok /\ r.pos = Len(text) + 1 THEN Ok(r.v) ELSE Raise("JSONDecodeError")

\* json.loads(x) of a value that came out of a parsed document: a TypeError
\* unless x is a str.
JsonLoadsValue(x) ==
    IF x.t = "str" THEN JsonLoads(x.s) ELSE Raise("TypeError")

\* x[key] for a string key: the last member of that name of a dict, KeyError
\* without one, TypeError on a str or a list.
Subscript(x, key) ==
    IF x.t = "obj"
    THEN LET hits == { i \in 1..Len(x.ks) : x.ks[i] = key }
         IN  IF hits = {} THEN Raise("KeyError")
             ELSE Ok(x.vs[CHOOSE i \in hits : \A j \in hits : j <= i])
    ELSE Raise("TypeError")

\* x[0]: the first item of a list, the first character of a str (IndexError
\* when empty), KeyError on a dict (its keys are strings).
Index0(x) ==
    IF x.t = "arr"
    THEN IF Len(x.vs) >= 1 THEN Ok(x.vs[1]) ELSE Raise("IndexError")
    ELSE IF x.t = "str"
    THEN IF Len(x.s) >= 1 THEN Ok(JStr(<<x.s[1]>>)) ELSE Raise("IndexError")
    ELSE Raise("KeyError")

\* ------------------------------------------------------ the two adapters

OK_PREFIX == <<"O", "K">>
PIPE == <<"|">>
TRIPLE_SEMICOLON == <<";", ";", ";">>

\* The GeetestResponse / RecaptchaResponse value a solve call returns: the
\* sequence of its fields.
GeetestResponse(challenge, validate, seccode) == Ok(JArr(<<challenge, validate, seccode>>))
RecaptchaResponse(result) == Ok(JArr(<<result>>))

\* The submit refusing an empty body, which holds no job id.
submit_imagetyperz_request_rejects_empty(body) ==
    IF body = <<>> \/ Contains(Lower(body), <<"error">>)
    THEN Raise("HTTPError")
    ELSE Ok(JStr(body))

\* The submit with the test for "error" made on the body as sent, not on its
\* lower-case form.
submit_imagetyperz_request_case_sensitive(body) ==
    IF Contains(body, <<"error">>)
    THEN Raise("HTTPError")
    ELSE Ok(JStr(body))

\* ImageTyperzSolver.__submit_imagetyperz_request, one attempt on a response
\* body: the job id, or HTTPError.
submit_imagetyperz_request(body) ==
    IF Contains(Lower(body), <<"error">>)
    THEN Raise("HTTPError")
    ELSE Ok(JStr(body))

\* The poll round without the test for an empty body: json.loads is then
\* given the empty text.
retrieve_imagetyperz_result_no_empty_test(body) ==
    LET doc == JsonLoads(body)
    IN  IF doc.act = "raise" THEN doc
        ELSE LET response == Index0(doc.v)
             IN  IF response.act = "raise" THEN response
                 ELSE LET status == Subscript(response.v, <<"Status">>)
                      IN  IF status.act = "raise" THEN status
                          ELSE IF status.v = JStr(<<"Pending">>)
                               THEN SleepAndContinue
                          ELSE IF status.v = JStr(<<"ERROR: IMAGE_TIMED_OUT">>)
                               THEN Raise("CaptchaUnsolvableError")
                          ELSE IF status.v /= JStr(<<"Solved">>)
                               THEN Raise("HTTPError")
                          ELSE Subscript(response.v, <<"Response">>)

\* The poll round without the test for "ERROR: IMAGE_TIMED_OUT": that status
\* is then one of those that are not "Solved".
retrieve_imagetyperz_result_no_timed_out(body) ==
    IF body = <<>> THEN Raise("HTTPError")
    ELSE LET doc == JsonLoads(body)
         IN  IF doc.act = "raise" THEN doc
             ELSE LET response == Index0(doc.v)
                  IN  IF response.act = "raise" THEN response
                      ELSE LET status == Subscript(response.v, <<"Status">>)
                           IN  IF status.act = "raise" THEN status
                               ELSE IF status.v = JStr(<<"Pending">>)
                                    THEN SleepAndContinue
                               ELSE IF status.v /= JStr(<<"Solved">>)
                                    THEN Raise("HTTPError")
                               ELSE Subscript(response.v, <<"Response">>)

\* ImageTyperzSolver.__retrieve_imagetyperz_result, one round of its loop on a
\* response body.
retrieve_imagetyperz_result(body) ==
    IF body = <<>> THEN Raise("HTTPError")
    ELSE LET doc == JsonLoads(body)
         IN  IF doc.act = "raise" THEN doc
             ELSE LET response == Index0(doc.v)
                  IN  IF response.act = "raise" THEN response
                      ELSE LET status == Subscript(response.v, <<"Status">>)
                           IN  IF status.act = "raise" THEN status
                               ELSE IF status.v = JStr(<<"Pending">>)
                                    THEN SleepAndContinue
                               ELSE IF status.v = JStr(<<"ERROR: IMAGE_TIMED_OUT">>)
                                    THEN Raise("CaptchaUnsolvableError")
                               ELSE IF status.v /= JStr(<<"Solved">>)
                                    THEN Raise("HTTPError")
                               ELSE Subscript(response.v, <<"Response">>)

\* solve_geetest reading the result as JSON only, without the ";;;" list.
imagetyperz_geetest_response_json_only(result) ==
    LET untyped_result == JsonLoadsValue(result)
    IN  IF untyped_result.act = "raise" THEN untyped_result
        ELSE LET c == Subscript(untyped_result.v, <<"geetest_challenge">>)
                 v == Subscript(untyped_result.v, <<"geetest_validate">>)
                 s == Subscript(untyped_result.v, <<"geetest_seccode">>)
             IN  IF c.act = "raise" THEN c
                 ELSE IF v.act = "raise" THEN v
                 ELSE IF s.act = "raise" THEN s
                 ELSE GeetestResponse(c.v, v.v, s.v)

\* ImageTyperzSolver.solve_geetest, from the retrieved result on: JSON first,
\* the ";;;"-separated list when json.loads raises JSONDecodeError.
imagetyperz_geetest_response(result) ==
    LET untyped_result == JsonLoadsValue(result)
    IN  IF untyped_result.err = "JSONDecodeError"
        THEN LET parts == Split(result.s, TRIPLE_SEMICOLON)
             IN  IF Len(parts) < 3 THEN Raise("IndexError")
                 ELSE GeetestResponse(JStr(parts[1]), JStr(parts[2]), JStr(parts[3]))
        ELSE IF untyped_result.act = "raise" THEN untyped_result
        ELSE LET c == Subscript(untyped_result.v, <<"geetest_challenge">>)
                 v == Subscript(untyped_result.v, <<"geetest_validate">>)
                 s == Subscript(untyped_result.v, <<"geetest_seccode">>)
             IN  IF c.act = "raise" THEN c
                 ELSE IF v.act = "raise" THEN v
                 ELSE IF s.act = "raise" THEN s
                 ELSE GeetestResponse(c.v, v.v, s.v)

\* The submit taking the whole body for the job id, as the ImageTyperz one
\* does, not the text after the "|".
submit_2captcha_v1_request_whole_body(body) ==
    IF ~StartsWith(body, OK_PREFIX)
    THEN Raise("HTTPError")
    ELSE Ok(JStr(body))

\* TwoCaptchaSolver.__submit_2captcha_v1_request, one attempt on a response
\* body: the job id, or HTTPError (IndexError without a "|").
submit_2captcha_v1_request(body) ==
    IF ~StartsWith(body, OK_PREFIX)
    THEN Raise("HTTPError")
    ELSE LET parts == Split(body, PIPE)
         IN  IF Len(parts) < 2 THEN Raise("IndexError") ELSE Ok(JStr(parts[2]))

\* The poll round raising HTTPError for CAPCHA_NOT_READY, so that 'pending'
\* answers are counted against the retry budget.
retrieve_2captcha_v1_result_pending_as_failure(body) ==
    IF Contains(body, <<"CAPCHA_NOT_READY">>) THEN Raise("HTTPError")
    ELSE IF Contains(body, <<"ERROR_CAPTCHA_UNSOLVABLE">>)
         THEN Raise("CaptchaUnsolvableError")
    ELSE IF Contains(body, <<"ERROR_ZERO_BALANCE">>)
         THEN Raise("CaptchaBalanceEmpty")
    ELSE IF ~StartsWith(body, OK_PREFIX) THEN Raise("HTTPError")
    ELSE LET parts == SplitOnce(body, PIPE)
         IN  IF Len(parts) < 2 THEN Raise("IndexError") ELSE Ok(JStr(parts[2]))

\* The poll round testing for the OK prefix first, before the markers.
retrieve_2captcha_v1_result_ok_first(body) ==
    IF StartsWith(body, OK_PREFIX)
    THEN LET parts == SplitOnce(body, PIPE)
         IN  IF Len(parts) < 2 THEN Raise("IndexError") ELSE Ok(JStr(parts[2]))
    ELSE IF Contains(body, <<"CAPCHA_NOT_READY">>) THEN SleepAndContinue
    ELSE IF Contains(body, <<"ERROR_CAPTCHA_UNSOLVABLE">>)
         THEN Raise("CaptchaUnsolvableError")
    ELSE IF Contains(body, <<"ERROR_ZERO_BALANCE">>)
         THEN Raise("CaptchaBalanceEmpty")
    ELSE Raise("HTTPError")

\* The poll round without the test for CAPCHA_NOT_READY: a 'pending' body is
\* then one that does not start with OK.
retrieve_2captcha_v1_result_no_not_ready(body) ==
    IF Contains(body, <<"ERROR_CAPTCHA_UNSOLVABLE">>)
    THEN Raise("CaptchaUnsolvableError")
    ELSE IF Contains(body, <<"ERROR_ZERO_BALANCE">>)
         THEN Raise("CaptchaBalanceEmpty")
    ELSE IF ~StartsWith(body, OK_PREFIX) THEN Raise("HTTPError")
    ELSE LET parts == SplitOnce(body, PIPE)
         IN  IF Len(parts) < 2 THEN Raise("IndexError") ELSE Ok(JStr(parts[2]))

\* The poll round raising HTTPError, which the backoff policy retries, for
\* ERROR_ZERO_BALANCE.
retrieve_2captcha_v1_result_balance_as_http_error(body) ==
    IF Contains(body, <<"CAPCHA_NOT_READY">>) THEN SleepAndContinue
    ELSE IF Contains(body, <<"ERROR_CAPTCHA_UNSOLVABLE">>)
         THEN Raise("CaptchaUnsolvableError")
    ELSE IF ~StartsWith(body, OK_PREFIX) \/ Contains(body, <<"ERROR_ZERO_BALANCE">>)
         THEN Raise("HTTPError")
    ELSE LET parts == SplitOnce(body, PIPE)
         IN  IF Len(parts) < 2 THEN Raise("IndexError") ELSE Ok(JStr(parts[2]))

\* The poll round cutting the body at every "|", as the submit does, not at
\* the first one only.
retrieve_2captcha_v1_result_split_all(body) ==
    IF Contains(body, <<"CAPCHA_NOT_READY">>) THEN SleepAndContinue
    ELSE IF Contains(body, <<"ERROR_CAPTCHA_UNSOLVABLE">>)
         THEN Raise("CaptchaUnsolvableError")
    ELSE IF Contains(body, <<"ERROR_ZERO_BALANCE">>)
         THEN Raise("CaptchaBalanceEmpty")
    ELSE IF ~StartsWith(body, OK_PREFIX) THEN Raise("HTTPError")
    ELSE LET parts == Split(body, PIPE)
         IN  IF Len(parts) < 2 THEN Raise("IndexError") ELSE Ok(JStr(parts[2]))

\* TwoCaptchaSolver.__retrieve_2captcha_v1_result, one round of its loop on a
\* response body.
retrieve_2captcha_v1_result(body) ==
    IF Contains(body, <<"CAPCHA_NOT_READY">>) THEN SleepAndContinue
    ELSE IF Contains(body, <<"ERROR_CAPTCHA_UNSOLVABLE">>)
         THEN Raise("CaptchaUnsolvableError")
    ELSE IF Contains(body, <<"ERROR_ZERO_BALANCE">>)
         THEN Raise("CaptchaBalanceEmpty")
    ELSE IF ~StartsWith(body, OK_PREFIX) THEN Raise("HTTPError")
    ELSE LET parts == SplitOnce(body, PIPE)
         IN  IF Len(parts) < 2 THEN Raise("IndexError") ELSE Ok(JStr(parts[2]))

\* TwoCaptchaSolver.solve_geetest, from the retrieved result on.
twocaptcha_geetest_response(result) ==
    LET untyped_result == JsonLoadsValue(result)
    IN  IF untyped_result.act = "raise" THEN untyped_result
        ELSE LET c == Subscript(untyped_result.v, <<"geetest_challenge">>)
                 v == Subscript(untyped_result.v, <<"geetest_validate">>)
                 s == Subscript(untyped_result.v, <<"geetest_seccode">>)
             IN  IF c.act = "raise" THEN c
                 ELSE IF v.act = "raise" THEN v
                 ELSE IF s.act = "raise" THEN s
                 ELSE GeetestResponse(c.v, v.v, s.v)

\* The adapter's submit, poll round and typed response.
SubmitAttempt(a, body) ==
    IF a = "imagetyperz" THEN submit_imagetyperz_request(body)
    ELSE submit_2captcha_v1_request(body)

PollRound(a, body) ==
    IF a = "imagetyperz" THEN retrieve_imagetyperz_result(body)
    ELSE retrieve_2captcha_v1_result(body)

TypedResponse(a, o, result) ==
    IF o = "recaptcha" THEN RecaptchaResponse(result)
    ELSE IF a = "imagetyperz" THEN imagetyperz_geetest_response(result)
    ELSE twocaptcha_geetest_response(result)

\* ---------------------------------------------------------- backoff policy

\* CaptchaSolver.backoff_options: the errors the policy retries ...
Retryable(err) == err = "HTTPError"

\* ... and whether the attempt that just failed, the (tries + 1)-th, was the
\* last one of the budget.
GiveUp(tries) == tries + 1 >= MaxTries

\* ------------------------------------------------- the simulated backend

\* What the backend puts on the wire.  JSON text of a string: quoted, with
\* the quote and the backslash escaped.
RECURSIVE JsonEscape(_)
JsonEscape(text) ==
    IF text = <<>> THEN <<>>
    ELSE (IF Head(text) \in {QUOTE, BACKSLASH} THEN <<BACKSLASH, Head(text)>>
          ELSE <<Head(text)>>) \o JsonEscape(Tail(text))

JsonString(text) == <<QUOTE>> \o JsonEscape(text) \o <<QUOTE>>

\* {"geetest_challenge":"a","geetest_validate":"b","geetest_seccode":"c"}
GeetestJson(a, b, c) ==
    <<"{">> \o JsonString(<<"geetest_challenge">>) \o <<":">> \o JsonString(a)
        \o <<",">> \o JsonString(<<"geetest_validate">>) \o <<":">> \o JsonString(b)
        \o <<",">> \o JsonString(<<"geetest_seccode">>) \o <<":">> \o JsonString(c)
        \o <<"}">>

\* The same object without its geetest_seccode member.
GeetestJsonNoSeccode(a, b) ==
    <<"{">> \o JsonString(<<"geetest_challenge">>) \o <<":">> \o JsonString(a)
        \o <<",">> \o JsonString(<<"geetest_validate">>) \o <<":">> \o JsonString(b)
        \o <<"}">>

\* a;;;b;;;c
GeetestDelimited(a, b, c) == a \o TRIPLE_SEMICOLON \o b \o TRIPLE_SEMICOLON \o c

\* ImageTyperz GetCaptchaResponseJson: [{"Status":"...","Response":"..."}]
ImageTyperzStatus(status) ==
    <<"[", "{">> \o JsonString(<<"Status">>) \o <<":">> \o JsonString(<<status>>)
        \o <<"}", "]">>

ImageTyperzSolved(payload) ==
    <<"[", "{">> \o JsonString(<<"Status">>) \o <<":">> \o JsonString(<<"Solved">>)
        \o <<",">> \o JsonString(<<"Response">>) \o <<":">> \o JsonString(payload)
        \o <<"}", "]">>

\* 2Captcha res.php: OK|payload
TwoCaptchaSolved(payload) == OK_PREFIX \o PIPE \o payload

\* The solved payloads the backend of the protocol runs sends.
SolvedPayloads ==
    { <<>>, <<"a">>, <<"a", "|", "b">>, JsonString(<<"a">>),
      GeetestJson(<<"a">>, <<"b">>, <<"c">>),
      GeetestJson(<<"a">>, <<>>, <<"c">>),
      GeetestJsonNoSeccode(<<"a">>, <<"b">>),
      GeetestDelimited(<<"a">>, <<"b">>, <<"c">>),
      GeetestDelimited(<<"a">>, <<>>, <<"c">>),
      <<"a">> \o TRIPLE_SEMICOLON \o <<"b">> }

\* The bodies the backend answers a poll with.
PollBodies(a) ==
    IF a = "imagetyperz"
    THEN { <<>>, <<"x">>, <<"[", "]">>, <<"{", "}">>,
           ImageTyperzStatus("Pending"),
           ImageTyperzStatus("ERROR: IMAGE_TIMED_OUT"),
           ImageTyperzStatus("ERROR: INSUFFICIENT_BALANCE"),
           ImageTyperzStatus("Solved"),
           <<"[", "{">> \o JsonString(<<"Response">>) \o <<":">>
               \o JsonString(<<"a">>) \o <<"}", "]">> }
         \cup { ImageTyperzSolved(p) : p \in SolvedPayloads }
    ELSE { <<>>, <<"ERROR_WRONG_CAPTCHA_ID">>, <<"CAPCHA_NOT_READY">>,
           <<"ERROR_CAPTCHA_UNSOLVABLE">>, <<"ERROR_ZERO_BALANCE">>, OK_PREFIX }
         \cup { TwoCaptchaSolved(p) : p \in SolvedPayloads }

\* The bodies the backend answers a submit with.
SubmitBodies(a) ==
    IF a = "imagetyperz"
    THEN { <<"1">>, <<"2">>, <<>>, <<"ERROR", ":", "x">>, <<"Error">> }
    ELSE { OK_PREFIX \o PIPE \o <<"1">>, OK_PREFIX \o PIPE \o <<"2">>,
           OK_PREFIX \o PIPE \o <<"1">> \o PIPE \o <<"x">>,
           OK_PREFIX, <<"ERROR_WRONG_USER_KEY">>, <<>> }

\* What the 2captcha library call and the breakpoint() after it may do to
\* TwoCaptchaSolver.solve_awswaf: run through (the method then ends without a
\* return statement), or raise.
AwsWafOutcomes == { "return None", "raise ApiException", "raise BdbQuit" }

\* The payload values of the round-trip runs.
Alphabet == {";", QUOTE, "|"}
Vals == UNION { [1..n -> Alphabet] : n \in 0..MaxLen }
Encodings == {"json", "delimited"}
NoInjection == [gee |-> <<<<>>, <<>>, <<>>>>, enc |-> "json"]

\* The body of a 'solved' poll answer carrying the injected values: the token
\* for reCAPTCHA (the first value), the triple for GeeTest.
SolvedPayload(o, inj) ==
    IF o = "recaptcha" THEN inj.gee[1]
    ELSE IF inj.enc = "json" THEN GeetestJson(inj.gee[1], inj.gee[2], inj.gee[3])
    ELSE GeetestDelimited(inj.gee[1], inj.gee[2], inj.gee[3])

SolvedBody(a, o, inj) ==
    IF a = "imagetyperz" THEN ImageTyperzSolved(SolvedPayload(o, inj))
    ELSE TwoCaptchaSolved(SolvedPayload(o, inj))

AcceptedBody(a) ==
    IF a = "imagetyperz" THEN <<"1">> ELSE OK_PREFIX \o PIPE \o <<"1">>

\* ------------------------------------------------------------- one solve call

VARIABLES
    adapter,      \* the adapter instance: "imagetyperz" or "twocaptcha"
    op,           \* the operation called: "recaptcha", "geetest", "awswaf"
    pc,           \* "idle", "submit", "poll", "done"
    captcha_id,   \* the job id the submit returned
    submitTries,  \* attempts of the submit the backoff policy has counted failed
    pollTries,    \* attempts of the retrieve the backoff policy has counted failed
    nSubmitReq,   \* submit requests issued
    nSubmitOk,    \* submit attempts that returned a job id
    nPollReq,     \* poll requests issued
    nOtherReq,    \* requests issued through the 2captcha library
    nSleeps,      \* sleep(5) calls of the poll loop
    elapsed,      \* seconds slept inside the retrieve call the policy wraps
    polledIds,    \* the job ids the poll requests carried
    lastSubmit,   \* the body the last submit request was answered with
    pollLog,      \* the bodies the poll requests were answered with, in order
    outcome,      \* what the call ended with
    injected,     \* the payload values the backend of a round-trip run sends
    cancelRequested, \* the caller has asked for the call to be cancelled
    api_key,      \* self.api_key of the adapter instance
    calls,        \* the solve calls running concurrently on the instance
    backend,      \* the backend of the concurrent calls: its answers, ids minted
    page,         \* the page Immowelt.extract_data is given
    extracted     \* what extract_data ended with

vars == <<adapter, op, pc, captcha_id, submitTries, pollTries, nSubmitReq,
          nSubmitOk, nPollReq, nOtherReq, nSleeps, elapsed, polledIds, lastSubmit,
          pollLog, outcome, injected, cancelRequested, api_key, calls, backend,
          page, extracted>>

\* The state of the instance and of the crawler, which a single solve call
\* does not write.
concVars == <<api_key, calls, backend>>
crawlVars == <<page, extracted>>

API_KEY == <<"k">>
NoCalls == <<>>
NoBackend == [script |-> <<>>, minted |-> 0]
NoPage == [script |-> "absent", nJson |-> 0, main |-> FALSE, titles |-> 0, anchors |-> <<>>]
NotExtracted == [kind |-> "none", err |-> "", from |-> "", entries |-> <<>>]

\* One solve call alone on the instance, nothing crawled.
OneCall ==
    /\ cancelRequested = FALSE
    /\ api_key = API_KEY
    /\ calls = NoCalls
    /\ backend = NoBackend
    /\ page = NoPage
    /\ extracted = NotExtracted

Adapters == {"imagetyperz", "twocaptcha"}

NoOutcome == [kind |-> "none", err |-> "", v |-> JNone, body |-> <<>>, at |-> ""]
Returned(v) == [kind |-> "return", err |-> "", v |-> v, body |-> <<>>, at |-> "poll"]
\* requests.HTTPError(response=...) carries the response it was raised for.
Raised(err, body, at) ==
    [kind |-> "raise", err |-> err, v |-> JNone,
     body |-> IF err = "HTTPError" THEN body ELSE <<>>, at |-> at]
ReturnedNone == [kind |-> "return", err |-> "", v |-> JNone, body |-> <<>>, at |-> "awswaf"]

Init ==
    /\ adapter \in Adapters
    /\ op = ""
    /\ pc = "idle"
    /\ captcha_id = <<>>
    /\ submitTries = 0
    /\ pollTries = 0
    /\ nSubmitReq = 0
    /\ nSubmitOk = 0
    /\ nPollReq = 0
    /\ nOtherReq = 0
    /\ nSleeps = 0
    /\ elapsed = 0
    /\ polledIds = {}
    /\ lastSubmit = <<>>
    /\ pollLog = <<>>
    /\ outcome = NoOutcome
    /\ injected = NoInjection
    /\ OneCall

\* solve_recaptcha / solve_geetest up to the submit: the parameters are built.
BeginSolve(o) ==
    /\ pc = "idle"
    /\ op' = o
    /\ pc' = "submit"
    /\ UNCHANGED <<adapter, captcha_id, submitTries, pollTries, nSubmitReq,
                   nSubmitOk, nPollReq, nOtherReq, nSleeps, elapsed, polledIds,
                   lastSubmit, pollLog, outcome, injected>>
    /\ UNCHANGED <<cancelRequested, concVars, crawlVars>>

solve_recaptcha == BeginSolve("recaptcha")

solve_geetest == BeginSolve("geetest")

\* CaptchaSolver.solve_awswaf, which ImageTyperzSolver inherits (it defines
\* none of its own): the operation is not supported.
CaptchaSolver_solve_awswaf == Raised("NotImplementedError", <<>>, "awswaf")

\* TwoCaptchaSolver.solve_awswaf calls the 2captcha library, stops in
\* breakpoint() and ends without returning a value.
twocaptcha_solve_awswaf(how) ==
    IF how = "return None" THEN ReturnedNone
    ELSE IF how = "raise BdbQuit" THEN Raised("BdbQuit", <<>>, "awswaf")
    ELSE Raised("ApiException", <<>>, "awswaf")

AwsWafEnd(a, how) ==
    IF a = "twocaptcha" THEN twocaptcha_solve_awswaf(how)
    ELSE CaptchaSolver_solve_awswaf

AwsWafRequests(a) == IF a = "twocaptcha" THEN 1 ELSE 0

solve_awswaf ==
    /\ pc = "idle"
    /\ op' = "awswaf"
    /\ pc' = "done"
    /\ nOtherReq' = nOtherReq + AwsWafRequests(adapter)
    /\ \E how \in AwsWafOutcomes : outcome' = AwsWafEnd(adapter, how)
    /\ UNCHANGED <<adapter, captcha_id, submitTries, pollTries, nSubmitReq,
                   nSubmitOk, nPollReq, nSleeps, elapsed, polledIds, lastSubmit,
                   pollLog, injected>>
    /\ UNCHANGED <<cancelRequested, concVars, crawlVars>>

\* One attempt of the submit under the backoff policy, answered with body.
SubmitOn(body) ==
    LET r == SubmitAttempt(adapter, body)
        retry == r.act = "raise" /\ Retryable(r.err) /\ ~GiveUp(submitTries)
    IN  /\ pc = "submit"
        /\ nSubmitReq' = nSubmitReq + 1
        /\ lastSubmit' = body
        /\ nSubmitOk' = IF r.act = "return" THEN nSubmitOk + 1 ELSE nSubmitOk
        /\ captcha_id' = IF r.act = "return" THEN r.v.s ELSE captcha_id
        /\ submitTries' = IF r.act = "raise" /\ Retryable(r.err)
                          THEN submitTries + 1 ELSE submitTries
        /\ pc' = IF r.act = "return" THEN "poll" ELSE IF retry THEN "submit" ELSE "done"
        /\ outcome' = IF r.act = "raise" /\ ~retry
                      THEN Raised(r.err, body, "submit") ELSE outcome
        /\ UNCHANGED <<adapter, op, pollTries, nPollReq, nOtherReq, nSleeps,
                       elapsed, polledIds, pollLog, injected>>
        /\ UNCHANGED <<cancelRequested, concVars, crawlVars>>

\* One round of the poll loop under the backoff policy, answered with body;
\* on a result, the rest of solve_recaptcha / solve_geetest.
PollOn(body) ==
    LET r == PollRound(adapter, body)
        transient == r.act = "raise" /\ Retryable(r.err)
        retry == transient /\ ~GiveUp(pollTries)
        typed == TypedResponse(adapter, op, r.v)
    IN  /\ pc = "poll"
        /\ r.act = "sleep" => nSleeps < MaxPending
        /\ nPollReq' = nPollReq + 1
        /\ polledIds' = polledIds \cup {captcha_id}
        /\ pollLog' = Append(pollLog, body)
        /\ nSleeps' = IF r.act = "sleep" THEN nSleeps + 1 ELSE nSleeps
        /\ elapsed' = IF r.act = "sleep" THEN elapsed + POLL_INTERVAL ELSE elapsed
        /\ pollTries' = IF transient THEN pollTries + 1 ELSE pollTries
        /\ pc' = IF r.act = "sleep" \/ retry THEN "poll" ELSE "done"
        /\ outcome' = IF r.act = "sleep" \/ retry THEN outcome
                      ELSE IF r.act = "raise" THEN Raised(r.err, body, "poll")
                      ELSE IF typed.act = "raise" THEN Raised(typed.err, body, "parse")
                      ELSE Returned(typed.v)
        /\ UNCHANGED <<adapter, op, captcha_id, submitTries, nSubmitReq, nSubmitOk,
                       nOtherReq, lastSubmit, injected>>
        /\ UNCHANGED <<cancelRequested, concVars, crawlVars>>

Submit == \E body \in SubmitBodies(adapter) : SubmitOn(body)

Poll == \E body \in PollBodies(adapter) : PollOn(body)

Next == solve_recaptcha \/ solve_geetest \/ solve_awswaf \/ Submit \/ Poll

Spec == Init /\ [][Next]_vars

\* The round-trip runs: the backend accepts the submit and answers the first
\* poll 'solved' with the injected values.
InitRoundTrip ==
    /\ adapter \in Adapters
    /\ op = ""
    /\ pc = "idle"
    /\ captcha_id = <<>>
    /\ submitTries = 0
    /\ pollTries = 0
    /\ nSubmitReq = 0
    /\ nSubmitOk = 0
    /\ nPollReq = 0
    /\ nOtherReq = 0
    /\ nSleeps = 0
    /\ elapsed = 0
    /\ polledIds = {}
    /\ lastSubmit = <<>>
    /\ pollLog = <<>>
    /\ outcome = NoOutcome
    /\ OneCall
    /\ injected \in { [gee |-> <<a, b, c>>, enc |-> e] :
                        a \in Vals, b \in Vals, c \in Vals,
                        e \in IF adapter = "imagetyperz" THEN Encodings ELSE {"json"} }

SubmitAccepted == SubmitOn(AcceptedBody(adapter))

PollSolved == PollOn(SolvedBody(adapter, op, injected))

NextRoundTrip == solve_recaptcha \/ solve_geetest \/ SubmitAccepted \/ PollSolved

RoundTripSpec == InitRoundTrip /\ [][NextRoundTrip]_vars

\* ------------------------------------------- what the backend's answers say

Last(log) == log[Len(log)]
Front(log) == SubSeq(log, 1, Len(log) - 1)

\* 'pending': ImageTyperz Status == "Pending"; 2Captcha a body containing
\* CAPCHA_NOT_READY.
AnswersPending(a, body) ==
    IF a = "imagetyperz" THEN body = ImageTyperzStatus("Pending")
    ELSE Contains(body, <<"CAPCHA_NOT_READY">>)

\* 'unsolvable': ImageTyperz Status "ERROR: IMAGE_TIMED_OUT"; 2Captcha
\* ERROR_CAPTCHA_UNSOLVABLE in a body that is not a 'pending' one.
AnswersUnsolvable(a, body) ==
    IF a = "imagetyperz" THEN body = ImageTyperzStatus("ERROR: IMAGE_TIMED_OUT")
    ELSE Contains(body, <<"ERROR_CAPTCHA_UNSOLVABLE">>) /\ ~AnswersPending(a, body)

\* 'zero balance' (2Captcha): ERROR_ZERO_BALANCE in a body that is neither
\* 'pending' nor 'unsolvable'.
AnswersZeroBalance(body) ==
    /\ Contains(body, <<"ERROR_ZERO_BALANCE">>)
    /\ ~AnswersPending("twocaptcha", body)
    /\ ~AnswersUnsolvable("twocaptcha", body)

\* A transient failure of a poll: ImageTyperz an empty body or a Status that
\* is none of Pending / Solved / ERROR: IMAGE_TIMED_OUT; 2Captcha a body
\* without a marker that does not start with OK.
AnswersTransient(a, body) ==
    IF a = "imagetyperz"
    THEN body \in {<<>>, ImageTyperzStatus("ERROR: INSUFFICIENT_BALANCE")}
    ELSE /\ ~StartsWith(body, OK_PREFIX)
         /\ ~AnswersPending(a, body)
         /\ ~AnswersUnsolvable(a, body)
         /\ ~AnswersZeroBalance(body)

\* The payloads of a 'solved' answer that are well formed for the operation:
\* any token for reCAPTCHA, the three fields in an encoding the adapter reads
\* for GeeTest.
WellFormedPayloads(a, o) ==
    IF o = "recaptcha" THEN SolvedPayloads
    ELSE { GeetestJson(<<"a">>, <<"b">>, <<"c">>), GeetestJson(<<"a">>, <<>>, <<"c">>) }
         \cup (IF a = "imagetyperz"
               THEN { GeetestDelimited(<<"a">>, <<"b">>, <<"c">>),
                      GeetestDelimited(<<"a">>, <<>>, <<"c">>) }
               ELSE {})

AnswersSolved(a, o, body) ==
    \E p \in WellFormedPayloads(a, o) :
        body = IF a = "imagetyperz" THEN ImageTyperzSolved(p) ELSE TwoCaptchaSolved(p)

AllPending(a, log) == \A i \in 1..Len(log) : AnswersPending(a, log[i])

\* The transient failures the poll log ends with.
TrailingTransient(a, log) ==
    Cardinality({ i \in 1..Len(log) :
                    \A j \in i..Len(log) : AnswersTransient(a, log[j]) })

\* A submit answer that fails transiently, one that succeeds, and the job id
\* of one that succeeds: the whole body (ImageTyperz), the text between the
\* first "|" and the next (2Captcha).
SubmitFailsTransiently(a, body) ==
    IF a = "imagetyperz"
    THEN \E i \in 1..Len(body) : body[i] \in {"ERROR", "Error", "error"}
    ELSE ~StartsWith(body, OK_PREFIX)

SubmitSucceeds(a, body) ==
    IF a = "imagetyperz" THEN ~SubmitFailsTransiently(a, body)
    ELSE StartsWith(body, OK_PREFIX) /\ Contains(body, PIPE)

JobIdOf(a, body) ==
    IF a = "imagetyperz" THEN body
    ELSE LET i == SetMin(Occurrences(body, PIPE))
             rest == SubSeq(body, i + 1, Len(body))
         IN  IF Contains(rest, PIPE)
             THEN SubSeq(rest, 1, SetMin(Occurrences(rest, PIPE)) - 1)
             ELSE rest

\* --------------------------------------------------------------------- C1

\* C1: when the backend answers the first k polls 'pending' and the next one
\* 'solved', the call has slept k times and is still polling after the k-th
\* answer, ends with a typed response on the (k+1)-th, having polled k+1 times
\* and slept k times, and no poll follows a 'solved' answer.
C1_PendingThenSolved ==
    /\ (pollLog /= <<>> /\ AllPending(adapter, pollLog))
         => /\ pc = "poll"
            /\ outcome = NoOutcome
            /\ nPollReq = Len(pollLog)
            /\ nSleeps = Len(pollLog)
    /\ (pollLog /= <<>> /\ AllPending(adapter, Front(pollLog))
                        /\ AnswersSolved(adapter, op, Last(pollLog)))
         => /\ pc = "done"
            /\ outcome.kind = "return"
            /\ outcome.v.t = "arr"
            /\ nPollReq = Len(pollLog)
            /\ nSleeps = Len(pollLog) - 1
    /\ \A i \in 1..(Len(pollLog) - 1) : ~AnswersSolved(adapter, op, pollLog[i])

C1_Witness ==
    /\ adapter = "imagetyperz"
    /\ op = "geetest"
    /\ pc = "done"
    /\ Len(pollLog) = 3
    /\ AllPending(adapter, Front(pollLog))
    /\ AnswersSolved(adapter, op, Last(pollLog))
    /\ outcome.kind = "return"

\* --------------------------------------------------------------------- C2

\* C2: on TwoCaptchaSolver a poll answer reporting zero balance is the last
\* answer of the call, which ends there with CaptchaBalanceEmpty; the step
\* that receives it sleeps not, counts no retry attempt, and nothing is
\* requested after it.
ZeroBalanceLast ==
    (adapter = "twocaptcha")
        => \A i \in 1..Len(pollLog) :
              AnswersZeroBalance(pollLog[i])
                 => /\ i = Len(pollLog)
                    /\ pc = "done"
                    /\ outcome = Raised("CaptchaBalanceEmpty", <<>>, "poll")

ZeroBalanceStep ==
    (adapter = "twocaptcha" /\ Len(pollLog') = Len(pollLog) + 1
                            /\ AnswersZeroBalance(Last(pollLog')))
        => /\ pc' = "done"
           /\ outcome'.err = "CaptchaBalanceEmpty"
           /\ nSleeps' = nSleeps
           /\ elapsed' = elapsed
           /\ pollTries' = pollTries
           /\ nPollReq' = nPollReq + 1

NoRequestAfterDone ==
    pc = "done" => /\ nPollReq' = nPollReq
                   /\ nSubmitReq' = nSubmitReq
                   /\ nOtherReq' = nOtherReq
                   /\ outcome' = outcome

C2_ZeroBalanceImmediate ==
    /\ []ZeroBalanceLast
    /\ [][ZeroBalanceStep /\ NoRequestAfterDone]_vars

C2_Witness ==
    /\ adapter = "twocaptcha"
    /\ Len(pollLog) = 2
    /\ AnswersPending(adapter, pollLog[1])
    /\ AnswersZeroBalance(pollLog[2])
    /\ outcome.err = "CaptchaBalanceEmpty"

\* --------------------------------------------------------------------- C3

\* C3: on both adapters a poll answer reporting the challenge unsolvable is
\* the last answer of the call, which ends there with CaptchaUnsolvableError
\* (not HTTPError); no poll and no submit request follows it.
UnsolvableLast ==
    \A i \in 1..Len(pollLog) :
        AnswersUnsolvable(adapter, pollLog[i])
           => /\ i = Len(pollLog)
              /\ pc = "done"
              /\ outcome = Raised("CaptchaUnsolvableError", <<>>, "poll")
              /\ nPollReq = Len(pollLog)
              /\ nSubmitOk = 1

UnsolvableStep ==
    (Len(pollLog') = Len(pollLog) + 1 /\ AnswersUnsolvable(adapter, Last(pollLog')))
        => /\ pc' = "done"
           /\ outcome'.err = "CaptchaUnsolvableError"
           /\ pollTries' = pollTries
           /\ nSubmitReq' = nSubmitReq

NoPollOrSubmitAfterDone ==
    pc = "done" => nPollReq' = nPollReq /\ nSubmitReq' = nSubmitReq

C3_UnsolvableTerminal ==
    /\ []UnsolvableLast
    /\ [][UnsolvableStep /\ NoPollOrSubmitAfterDone]_vars

C3_Witness ==
    /\ adapter = "imagetyperz"
    /\ Len(pollLog) = 2
    /\ AnswersTransient(adapter, pollLog[1])
    /\ AnswersUnsolvable(adapter, pollLog[2])
    /\ outcome.err = "CaptchaUnsolvableError"

\* --------------------------------------------------------------------- C4

\* C4: the retry policy wraps each single poll request and not the poll loop:
\* the 'pending' answers and the sleeps after them leave the retry state of
\* the retrieve (attempts counted, time elapsed) untouched, and a call that
\* gives up on a poll does so because that poll request itself failed
\* MaxTries times in a row.
C4_RetryBudgetPerPollRequest ==
    /\ elapsed = 0
    /\ pollTries = TrailingTransient(adapter, pollLog)
    /\ (pc = "done" /\ outcome.at = "poll" /\ outcome.err = "HTTPError")
          => TrailingTransient(adapter, pollLog) = MaxTries

\* --------------------------------------------------------------------- C5

\* C5: while the submit is being tried, every answer so far was a transient
\* failure and fewer than MaxTries were made; a submit answer that succeeds
\* takes the call to polling with the job id of that answer; MaxTries
\* transient failures end the call with the HTTPError of the last answer,
\* without any poll request and without a response.
C5_SubmitRetried ==
    /\ nSubmitReq <= MaxTries
    /\ pc = "submit"
          => /\ nSubmitReq < MaxTries
             /\ nSubmitOk = 0
             /\ outcome = NoOutcome
             /\ nSubmitReq > 0 => SubmitFailsTransiently(adapter, lastSubmit)
    /\ (nSubmitReq > 0 /\ SubmitSucceeds(adapter, lastSubmit))
          => /\ pc \in {"poll", "done"}
             /\ nSubmitOk = 1
             /\ captcha_id = JobIdOf(adapter, lastSubmit)
             /\ polledIds \subseteq {captcha_id}
             /\ outcome.at /= "submit"
    /\ (nSubmitReq > 0 /\ nSubmitReq < MaxTries
                       /\ SubmitFailsTransiently(adapter, lastSubmit))
          => /\ pc = "submit"
             /\ submitTries = nSubmitReq
             /\ nPollReq = 0
    /\ (nSubmitReq = MaxTries /\ SubmitFailsTransiently(adapter, lastSubmit))
          => /\ pc = "done"
             /\ outcome = Raised("HTTPError", lastSubmit, "submit")
             /\ nSubmitOk = 0
             /\ nPollReq = 0
             /\ pollLog = <<>>

C5_Witness ==
    /\ adapter = "twocaptcha"
    /\ nSubmitReq = 2
    /\ submitTries = 1
    /\ SubmitSucceeds(adapter, lastSubmit)
    /\ nPollReq = 1
    /\ polledIds = {JobIdOf(adapter, lastSubmit)}

\* --------------------------------------------------------------------- C6

\* C6: every solve_recaptcha / solve_geetest call ends with a typed response
\* or with one of the classified errors (transient HTTPError,
\* CaptchaBalanceEmpty, CaptchaUnsolvableError, unsupported operation),
\* whatever bodies the backend sends.
C6_EveryOutcomeClassified ==
    (pc = "done" /\ op \in {"recaptcha", "geetest"})
        => \/ outcome.kind = "return" /\ outcome.v.t = "arr"
           \/ /\ outcome.kind = "raise"
              /\ outcome.err \in {"HTTPError", "CaptchaBalanceEmpty",
                                  "CaptchaUnsolvableError", "NotImplementedError"}

\* --------------------------------------------------------------------- C7

\* C7: solve_awswaf on either adapter ends with the unsupported-operation
\* error, having issued no outbound request, and never with a normal return
\* that carries no response.
C7_AwsWafUnsupported ==
    (pc = "done" /\ op = "awswaf")
        => /\ outcome = Raised("NotImplementedError", <<>>, "awswaf")
           /\ nOtherReq + nSubmitReq + nPollReq = 0

\* --------------------------------------------------------------------- C8

\* C8: a response returned by solve_recaptcha or solve_geetest is fully
\* populated: each of its fields is a non-empty string.
C8_ResponseFullyPopulated ==
    (pc = "done" /\ op \in {"recaptcha", "geetest"} /\ outcome.kind = "return")
        => \A i \in 1..Len(outcome.v.vs) :
              outcome.v.vs[i].t = "str" /\ outcome.v.vs[i].s /= <<>>

\* --------------------------------------------------------------- C9, C10

\* The response that carries exactly the injected values: the token for
\* reCAPTCHA, the triple for GeeTest.
InjectedResponse ==
    IF op = "recaptcha" THEN JArr(<<JStr(injected.gee[1])>>)
    ELSE JArr(<<JStr(injected.gee[1]), JStr(injected.gee[2]), JStr(injected.gee[3])>>)

EndsWithSemicolon(text) == text /= <<>> /\ text[Len(text)] = ";"

\* a;;;b;;;c can be cut back into a, b, c, and the two-step parse gets as far
\* as cutting it: neither a nor b ends with ";", none of the three contains
\* ";;;", and the text is not itself valid JSON.
DelimitedReadable(a, b, c) ==
    /\ ~EndsWithSemicolon(a)
    /\ ~EndsWithSemicolon(b)
    /\ ~Contains(a, TRIPLE_SEMICOLON)
    /\ ~Contains(b, TRIPLE_SEMICOLON)
    /\ ~Contains(c, TRIPLE_SEMICOLON)
    /\ JsonLoads(GeetestDelimited(a, b, c)).act = "raise"

InjectedReadable ==
    (op = "geetest" /\ injected.enc = "delimited")
        => DelimitedReadable(injected.gee[1], injected.gee[2], injected.gee[3])

\* The text after the first "|" of a body.
AfterFirstPipe(body) ==
    LET i == CHOOSE k \in 1..Len(body) :
                 body[k] = "|" /\ \A j \in 1..(k - 1) : body[j] /= "|"
    IN  [j \in 1..(Len(body) - i) |-> body[i + j]]

\* C9 as stated: a call whose first poll is answered 'solved' returns the
\* response that carries exactly the injected values, whatever they are.
C9_RoundTripAnyValues ==
    pc = "done" => outcome = Returned(InjectedResponse)

\* C9 as amended: a call whose first poll is answered 'solved' returns the
\* response that carries exactly the injected values (on 2Captcha the token
\* is all the text after the first "|" of the body), provided that a GeeTest
\* payload sent as a;;;b;;;c can be cut back into a, b, c.
C9_RoundTripReadable ==
    (pc = "done" /\ InjectedReadable)
        => /\ outcome = Returned(InjectedResponse)
           /\ nPollReq = 1
           /\ (adapter = "twocaptcha" /\ op = "recaptcha")
                 => outcome.v.vs[1].s = AfterFirstPipe(Last(pollLog))

C9_Witness ==
    /\ pc = "done"
    /\ adapter = "twocaptcha"
    /\ op = "recaptcha"
    /\ injected.gee[1] = <<"|">>
    /\ outcome = Returned(JArr(<<JStr(<<"|">>)>>))

\* C10 as stated: for all a, b, c, ImageTyperzSolver.solve_geetest gives
\* GeetestResponse(a, b, c) for the JSON object and for a;;;b;;;c alike.
C10_BothEncodingsAnyValues ==
    LET a == injected.gee[1]
        b == injected.gee[2]
        c == injected.gee[3]
    IN  (pc = "done" /\ adapter = "imagetyperz" /\ op = "geetest")
           => /\ outcome = Returned(JArr(<<JStr(a), JStr(b), JStr(c)>>))
              /\ imagetyperz_geetest_response(JStr(GeetestJson(a, b, c)))
                    = GeetestResponse(JStr(a), JStr(b), JStr(c))
              /\ imagetyperz_geetest_response(JStr(GeetestDelimited(a, b, c)))
                    = GeetestResponse(JStr(a), JStr(b), JStr(c))

\* C10 as amended: ImageTyperzSolver.solve_geetest parses the payload as JSON
\* first and cuts it at ";;;" only when that raises JSONDecodeError.  It gives
\* GeetestResponse(a, b, c) for the JSON object with these three fields, for
\* all a, b, c; it gives the same for a;;;b;;;c when that text is not valid
\* JSON, neither a nor b ends with ";" and none of a, b, c contains ";;;".
C10_BothEncodingsReadable ==
    LET a == injected.gee[1]
        b == injected.gee[2]
        c == injected.gee[3]
        sent == IF injected.enc = "json" THEN GeetestJson(a, b, c)
                ELSE GeetestDelimited(a, b, c)
    IN  (pc = "done" /\ adapter = "imagetyperz" /\ op = "geetest")
           => /\ imagetyperz_geetest_response(JStr(GeetestJson(a, b, c)))
                    = GeetestResponse(JStr(a), JStr(b), JStr(c))
              /\ DelimitedReadable(a, b, c)
                    => imagetyperz_geetest_response(JStr(GeetestDelimited(a, b, c)))
                          = GeetestResponse(JStr(a), JStr(b), JStr(c))
              /\ (injected.enc = "json" \/ DelimitedReadable(a, b, c))
                    => outcome = Returned(JArr(<<JStr(a), JStr(b), JStr(c)>>))
              /\ JsonLoads(sent).act = "return"
                    => outcome.err \notin {"IndexError", "JSONDecodeError"}

C10_Witness ==
    /\ pc = "done"
    /\ adapter = "imagetyperz"
    /\ op = "geetest"
    /\ injected = [gee |-> <<<<"|">>, <<>>, <<";">>>>, enc |-> "delimited"]
    /\ outcome = Returned(JArr(<<JStr(<<"|">>), JStr(<<>>), JStr(<<";">>)>>))

\* -------------------------------------------------------------------- C11

\* The ImageTyperz poll answer that reports an account without credit.
AnswersNoCredit(body) == body = ImageTyperzStatus("ERROR: INSUFFICIENT_BALANCE")

\* C11: on ImageTyperzSolver a poll answer reporting that the account has no
\* credit left is the last answer of the call, which ends there with
\* CaptchaBalanceEmpty; the poll is not tried again under the backoff policy.
C11_ImageTyperzNoCreditTerminal ==
    (adapter = "imagetyperz")
        => /\ \A i \in 1..Len(pollLog) :
                 AnswersNoCredit(pollLog[i])
                    => /\ i = Len(pollLog)
                       /\ pc = "done"
                       /\ outcome = Raised("CaptchaBalanceEmpty", <<>>, "poll")
           /\ (pollLog /= <<>> /\ AllPending(adapter, Front(pollLog))
                               /\ AnswersNoCredit(Last(pollLog)))
                 => pollTries = 0

\* -------------------------------------------------------------------- C12

\* Submitting -> Polling -> Done.
Successors(at) ==
    IF at = "idle" THEN {"submit", "done"}
    ELSE IF at = "submit" THEN {"submit", "poll", "done"}
    ELSE IF at = "poll" THEN {"poll", "done"}
    ELSE {}

\* No poll before a submit of the call has succeeded; every poll carries the
\* job id of that submit answer; the call has an outcome exactly when Done.
PollsFollowSubmit ==
    /\ pc \in {"idle", "submit", "poll", "done"}
    /\ pc \in {"idle", "submit"} => nPollReq = 0 /\ nSubmitOk = 0 /\ polledIds = {}
    /\ pc = "poll" => nSubmitOk = 1
    /\ nSubmitOk <= 1
    /\ nPollReq > 0
          => /\ nSubmitOk = 1
             /\ SubmitSucceeds(adapter, lastSubmit)
             /\ captcha_id = JobIdOf(adapter, lastSubmit)
             /\ polledIds = {captcha_id}
    /\ (pc = "done") <=> (outcome /= NoOutcome)
    /\ outcome.kind \in {"none", "return", "raise"}

\* A step goes forward in the state machine, leaves Done never, and gives the
\* call its outcome at most once.
ForwardStep ==
    /\ pc' \in Successors(pc)
    /\ pc = "done" => UNCHANGED vars
    /\ outcome /= NoOutcome => outcome' = outcome
    /\ nPollReq' > nPollReq => pc = "poll"
    /\ nSubmitReq' > nSubmitReq => pc = "submit"

\* C12: a solve call goes Submitting -> Polling -> Done: no poll request
\* before a submit of the call has succeeded, every poll request carries the
\* job id of that submit answer, Done is absorbing (no request and no second
\* outcome after it), and the call returns or raises exactly once.
C12_SubmitPollDone ==
    /\ []PollsFollowSubmit
    /\ [][ForwardStep]_vars

C12_Witness ==
    /\ adapter = "twocaptcha"
    /\ pc = "done"
    /\ nSubmitReq = 2
    /\ nSubmitOk = 1
    /\ lastSubmit = OK_PREFIX \o PIPE \o <<"1">> \o PIPE \o <<"x">>
    /\ nPollReq = 2
    /\ polledIds = {<<"1">>}
    /\ outcome.kind = "return"

\* -------------------------------------------------------------------- C13

\* The transient failures in a poll log.
TransientCount(a, log) ==
    Cardinality({ i \in 1..Len(log) : AnswersTransient(a, log[i]) })

\* The attempts the policy has counted are the transient failures answered;
\* after one of them the call polls again while the budget lasts and ends
\* with that HTTPError when it is spent.
TransientPollRetried ==
    /\ nSubmitOk <= 1
    /\ pollTries = TransientCount(adapter, pollLog)
    /\ pollTries <= MaxTries
    /\ polledIds \subseteq {captcha_id}
    /\ (pollLog /= <<>> /\ AnswersTransient(adapter, Last(pollLog)))
          => IF pollTries < MaxTries
             THEN pc = "poll" /\ outcome = NoOutcome
             ELSE pc = "done" /\ outcome = Raised("HTTPError", Last(pollLog), "poll")

\* The step that receives a transient failure submits nothing and keeps the
\* job id.
TransientPollStep ==
    (Len(pollLog') = Len(pollLog) + 1 /\ AnswersTransient(adapter, Last(pollLog')))
        => /\ nSubmitReq' = nSubmitReq
           /\ nSubmitOk' = nSubmitOk
           /\ captcha_id' = captcha_id
           /\ polledIds' = {captcha_id}
           /\ nSleeps' = nSleeps

\* C13: a poll that fails transiently is tried again under the backoff policy
\* by polling with the same job id; the challenge is not submitted again, a
\* call has at most one successful submit, and when the budget is spent the
\* call ends with the transient error.
C13_TransientPollRetried ==
    /\ []TransientPollRetried
    /\ [][TransientPollStep]_vars

C13_Witness ==
    /\ adapter = "imagetyperz"
    /\ pc = "done"
    /\ Len(pollLog) = 2
    /\ pollLog[1] = <<>>
    /\ nPollReq = 2
    /\ nSubmitReq = 1
    /\ polledIds = {captcha_id}
    /\ outcome.kind = "return"

\* -------------------------------------------------------------------- C14

\* A solve call is one thread of control: requests.post / requests.get come
\* back (timeout=30) and sleep(5) ends, so a call that can take its next step
\* takes it.
LiveSpec == Spec /\ WF_vars(Submit) /\ WF_vars(Poll)

\* 'pending' answers alone leave the call polling, with nothing counted
\* against the retry budget.
PendingNeverGivesUp ==
    (pollLog /= <<>> /\ AllPending(adapter, pollLog))
        => /\ pc = "poll"
           /\ outcome = NoOutcome
           /\ pollTries = 0
           /\ nSleeps = Len(pollLog)

\* C14: with a backend that answers 'pending' finitely often (at most
\* MaxPending times), every solve call that has begun reaches Done, and the
\* 'pending' answers alone never end it.
C14_PollingEnds ==
    /\ (pc \in {"submit", "poll"}) ~> (pc = "done")
    /\ []PendingNeverGivesUp

C14_Witness ==
    /\ pc = "done"
    /\ nSleeps = MaxPending
    /\ AllPending(adapter, Front(pollLog))
    /\ Len(pollLog) = MaxPending + 1
    /\ outcome.kind = "return"

\* -------------------------------------------------------------------- C16

\* The caller asks for the call to be cancelled while it is polling.  The
\* solve methods take no cancellation argument and the poll loop reads no
\* flag: the request changes nothing the call looks at.
Cancel ==
    /\ pc = "poll"
    /\ ~cancelRequested
    /\ cancelRequested' = TRUE
    /\ UNCHANGED <<adapter, op, pc, captcha_id, submitTries, pollTries, nSubmitReq,
                   nSubmitOk, nPollReq, nOtherReq, nSleeps, elapsed, polledIds,
                   lastSubmit, pollLog, outcome, injected, concVars, crawlVars>>

NextCancel == Next \/ Cancel

CancelSpec == Init /\ [][NextCancel]_vars

\* C16: a call cancelled while polling ends with a cancellation error, and
\* with no solved response.
C16_CancelEndsCall ==
    (cancelRequested /\ pc = "done")
        => /\ outcome.kind = "raise"
           /\ outcome.err = "CancelledError"

\* -------------------------------------------------------------------- C17

\* Longest poll body of the classification runs, in tokens.
MaxBody == 4

\* The poll bodies of the classification runs: free text over the tokens the
\* retrieve looks for.
MarkerTokens == {"CAPCHA_NOT_READY", "ERROR_CAPTCHA_UNSOLVABLE", "ERROR_ZERO_BALANCE"}
BodyTokens == MarkerTokens \cup {"O", "K", "|", "x"}
MarkedBodies == UNION { [1..n -> BodyTokens] : n \in 0..MaxBody }

\* The classification runs: a TwoCaptchaSolver.solve_recaptcha call whose
\* submit was accepted, at its first poll.
InitClassify ==
    /\ adapter = "twocaptcha"
    /\ op = "recaptcha"
    /\ pc = "poll"
    /\ captcha_id = <<"1">>
    /\ submitTries = 0
    /\ pollTries = 0
    /\ nSubmitReq = 1
    /\ nSubmitOk = 1
    /\ nPollReq = 0
    /\ nOtherReq = 0
    /\ nSleeps = 0
    /\ elapsed = 0
    /\ polledIds = {}
    /\ lastSubmit = AcceptedBody("twocaptcha")
    /\ pollLog = <<>>
    /\ outcome = NoOutcome
    /\ injected = NoInjection
    /\ OneCall

PollMarked == pollLog = <<>> /\ \E body \in MarkedBodies : PollOn(body)

NextClassify == PollMarked

ClassifySpec == InitClassify /\ [][NextClassify]_vars

Has(body, tok) == \E i \in 1..Len(body) : body[i] = tok

\* The class of a body, by the precedence of the markers.
ClassOf(body) ==
    IF Has(body, "CAPCHA_NOT_READY") THEN "pending"
    ELSE IF Has(body, "ERROR_CAPTCHA_UNSOLVABLE") THEN "unsolvable"
    ELSE IF Has(body, "ERROR_ZERO_BALANCE") THEN "zero balance"
    ELSE IF Len(body) >= 2 /\ body[1] = "O" /\ body[2] = "K" THEN "solved"
    ELSE "transient"

\* C17: TwoCaptchaSolver treats a poll body by the first that applies of:
\* CAPCHA_NOT_READY anywhere ('pending': sleep and poll again),
\* ERROR_CAPTCHA_UNSOLVABLE anywhere (CaptchaUnsolvableError),
\* ERROR_ZERO_BALANCE anywhere (CaptchaBalanceEmpty), starts with OK
\* ('solved': the return statement is reached), else transient (HTTPError);
\* a result is returned only for a body that starts with OK and holds none
\* of the three markers, the payload included.
C17_MarkerPrecedence ==
    (pollLog /= <<>>)
        => LET body == Last(pollLog)
               class == ClassOf(body)
           IN  /\ class = "pending"
                    <=> (pc = "poll" /\ nSleeps = 1 /\ pollTries = 0)
               /\ class = "unsolvable"
                    <=> outcome = Raised("CaptchaUnsolvableError", <<>>, "poll")
               /\ class = "zero balance"
                    <=> outcome = Raised("CaptchaBalanceEmpty", <<>>, "poll")
               /\ class = "transient" <=> (pollTries = 1 /\ nSleeps = 0)
               /\ class = "solved"
                    <=> \/ outcome.kind = "return"
                        \/ outcome = Raised("IndexError", <<>>, "poll")
               /\ outcome.kind = "return"
                    => /\ body[1] = "O" /\ body[2] = "K"
                       /\ \A i \in 1..Len(body) : body[i] \notin MarkerTokens
                       /\ Has(body, "|")
                       /\ outcome.v = JArr(<<JStr(AfterFirstPipe(body))>>)

C17_Witness ==
    /\ pollLog = << <<"O", "K", "|", "CAPCHA_NOT_READY">> >>
    /\ pc = "poll"
    /\ nSleeps = 1
    /\ outcome = NoOutcome

\* -------------------------------------------------------------------- C18

\* C18: ImageTyperzSolver's submit fails, with HTTPError and under the retry
\* policy, when the body holds "error" in any letter case, and no poll is
\* made on such an answer; on every other body, the empty one included, the
\* whole body is the job id, and every poll of the call carries it.
C18_ImageTyperzJobIdIsBody ==
    (adapter = "imagetyperz" /\ nSubmitReq > 0)
        => /\ SubmitFailsTransiently(adapter, lastSubmit)
                 => /\ nSubmitOk = 0
                    /\ nPollReq = 0
                    /\ polledIds = {}
                    /\ IF nSubmitReq < MaxTries
                       THEN pc = "submit" /\ outcome = NoOutcome
                       ELSE pc = "done" /\ outcome = Raised("HTTPError", lastSubmit, "submit")
           /\ ~SubmitFailsTransiently(adapter, lastSubmit)
                 => /\ nSubmitOk = 1
                    /\ pc \in {"poll", "done"}
                    /\ captcha_id = lastSubmit
                    /\ polledIds \subseteq {lastSubmit}
                    /\ nPollReq > 0 => polledIds = {lastSubmit}

C18_Witness ==
    /\ adapter = "imagetyperz"
    /\ lastSubmit = <<>>
    /\ captcha_id = <<>>
    /\ nPollReq = 2
    /\ polledIds = {<<>>}
    /\ pc = "done"
    /\ outcome.kind = "return"

\* -------------------------------------------------------------------- C19

\* Most estates in the searchui script, most h2 elements and most a[id]
\* elements under main, of a page.
MaxEstates == 2
MaxTitles == 2
MaxAnchors == 2

\* An a[id] element: with all the div and span elements extract_data looks
\* for, or without one of them.
AnchorKinds == {"full", "no price", "no area", "no rooms", "no address"}

\* A page: whether it has the script with data-hypernova-key="searchui" and
\* whether the text of the script is JSON; the estates the JSON path finds in
\* it; whether it has a main element; the h2 elements and the a[id] elements
\* under main (the i-th title, the i-th anchor).
Pages ==
    { [script |-> s, nJson |-> n, main |-> m, titles |-> t, anchors |-> a] :
        s \in {"absent", "invalid", "valid"}, n \in 0..MaxEstates, m \in BOOLEAN,
        t \in 0..MaxTitles, a \in UNION { [1..k -> AnchorKinds] : k \in 0..MaxAnchors } }

ExtractReturn(from, entries) ==
    [kind |-> "return", err |-> "", from |-> from, entries |-> entries]
ExtractRaise(err, from) ==
    [kind |-> "raise", err |-> err, from |-> from, entries |-> <<>>]

\* An expose: built from the i-th estate of the JSON, or from the i-th title
\* and the j-th anchor of the HTML.
JsonEntry(i) == [title |-> 0, anchor |-> 0, estate |-> i, address |-> TRUE]
HtmlEntry(i, j, kind) ==
    [title |-> i, anchor |-> j, estate |-> 0, address |-> kind /= "no address"]

\* Immowelt.get_entries_from_json: None without the script, json.loads of its
\* text, one entry for each estate.
get_entries_from_json(p) ==
    IF p.script = "absent" THEN [act |-> "return", none |-> TRUE, entries |-> <<>>]
    ELSE IF p.script = "invalid" THEN [act |-> "raise", none |-> FALSE, entries |-> <<>>]
    ELSE [act |-> "return", none |-> FALSE,
          entries |-> [i \in 1..p.nJson |-> JsonEntry(i)]]

\* The loop of extract_data over the titles, from the idx-th on: an anchor
\* without the price, area or rooms div ends it with AttributeError (find
\* gives None, and only IndexError is caught); a title past the last anchor
\* is skipped.
RECURSIVE HtmlEntries(_, _, _)
HtmlEntries(p, idx, entries) ==
    IF idx > p.titles THEN ExtractReturn("html", entries)
    ELSE IF idx > Len(p.anchors) THEN HtmlEntries(p, idx + 1, entries)
    ELSE IF p.anchors[idx] \in {"no price", "no area", "no rooms"}
         THEN ExtractRaise("AttributeError", "html")
    ELSE HtmlEntries(p, idx + 1, Append(entries, HtmlEntry(idx, idx, p.anchors[idx])))

\* Immowelt.extract_data
extract_data(p) ==
    LET json_results == get_entries_from_json(p)
    IN  IF json_results.act = "raise" THEN ExtractRaise("JSONDecodeError", "json")
        ELSE IF ~json_results.none /\ json_results.entries /= <<>>
             THEN ExtractReturn("json", json_results.entries)
        ELSE IF ~p.main THEN ExtractReturn("html", <<>>)
        ELSE HtmlEntries(p, 1, <<>>)

InitExtract ==
    /\ adapter \in Adapters
    /\ op = ""
    /\ pc = "idle"
    /\ captcha_id = <<>>
    /\ submitTries = 0
    /\ pollTries = 0
    /\ nSubmitReq = 0
    /\ nSubmitOk = 0
    /\ nPollReq = 0
    /\ nOtherReq = 0
    /\ nSleeps = 0
    /\ elapsed = 0
    /\ polledIds = {}
    /\ lastSubmit = <<>>
    /\ pollLog = <<>>
    /\ outcome = NoOutcome
    /\ injected = NoInjection
    /\ cancelRequested = FALSE
    /\ api_key = API_KEY
    /\ calls = NoCalls
    /\ backend = NoBackend
    /\ page \in Pages
    /\ extracted = NotExtracted

ExtractData ==
    /\ extracted = NotExtracted
    /\ extracted' = extract_data(page)
    /\ UNCHANGED <<adapter, op, pc, captcha_id, submitTries, pollTries, nSubmitReq,
                   nSubmitOk, nPollReq, nOtherReq, nSleeps, elapsed, polledIds,
                   lastSubmit, pollLog, outcome, injected, cancelRequested,
                   concVars, page>>

NextExtract == ExtractData

ExtractSpec == InitExtract /\ [][NextExtract]_vars

\* C19: extract_data returns the entries of the JSON whenever the script is
\* there and yields at least one; it turns to the HTML only when the script
\* is absent or yields none; there it returns the empty list without a main
\* element, and otherwise a list of at most one entry for each h2, the entry
\* of a title built from the anchor of the same index.
C19_ExtractDataPrefersJson ==
    (extracted /= NotExtracted)
        => /\ (page.script = "valid" /\ page.nJson >= 1)
                 => extracted = ExtractReturn("json", [i \in 1..page.nJson |-> JsonEntry(i)])
           /\ extracted.from = "html"
                 => page.script = "absent" \/ (page.script = "valid" /\ page.nJson = 0)
           /\ (extracted.from = "html" /\ ~page.main)
                 => extracted = ExtractReturn("html", <<>>)
           /\ (extracted.from = "html" /\ page.main)
                 => /\ extracted.kind = "return"
                    /\ Len(extracted.entries) <= page.titles
                    /\ \A i \in 1..Len(extracted.entries) :
                          /\ extracted.entries[i].title = i
                          /\ extracted.entries[i].anchor = i

\* -------------------------------------------------------------------- C15

\* The solve calls that run concurrently on one instance, and the job ids
\* the backend mints, in the order of the submits it accepts.
Calls == {"first", "second"}
Ids == << <<"1">>, <<"2">> >>
IdIndex(id) == CHOOSE k \in 1..Len(Ids) : Ids[k] = id

\* What the backend answers the polls for one job id with, in order; the last
\* answer is repeated.
Scripts ==
    { <<"solved">>, <<"pending", "solved">>, <<"transient", "solved">>,
      <<"pending", "unsolvable">>, <<"transient">> }

ScriptAnswer(script, n) == script[IF n <= Len(script) THEN n ELSE Len(script)]

\* The body of an answer of that kind for job id `id`, to a call of operation
\* o: the solved payload carries the job id.
BodyFor(a, o, kind, id) ==
    IF kind = "solved"
    THEN SolvedBody(a, o, [gee |-> <<id, id, id>>, enc |-> "json"])
    ELSE IF kind = "pending"
    THEN (IF a = "imagetyperz" THEN ImageTyperzStatus("Pending")
          ELSE <<"CAPCHA_NOT_READY">>)
    ELSE IF kind = "unsolvable"
    THEN (IF a = "imagetyperz" THEN ImageTyperzStatus("ERROR: IMAGE_TIMED_OUT")
          ELSE <<"ERROR_CAPTCHA_UNSOLVABLE">>)
    ELSE <<>>

\* The submit answer that accepts a challenge under job id `id`.
AcceptedAs(a, id) == IF a = "imagetyperz" THEN id ELSE OK_PREFIX \o PIPE \o id

\* The locals of a solve call: where it is, its operation, the captcha_id its
\* submit returned, the attempts its retrieve has failed, the job ids it
\* polled with, the polls it made, and what it ended with.
NewCall ==
    [pc |-> "idle", op |-> "", captcha_id |-> <<>>, tries |-> 0, polled |-> {},
     nPolls |-> 0, outcome |-> NoOutcome]

\* The job id a poll of call c carries: the captcha_id argument of the
\* retrieve, a local of the call.
PollJobId_of_instance(c) == Ids[backend.minted]

PollJobId(c) == calls[c].captcha_id

InitConcurrent ==
    /\ adapter \in Adapters
    /\ op = ""
    /\ pc = "idle"
    /\ captcha_id = <<>>
    /\ submitTries = 0
    /\ pollTries = 0
    /\ nSubmitReq = 0
    /\ nSubmitOk = 0
    /\ nPollReq = 0
    /\ nOtherReq = 0
    /\ nSleeps = 0
    /\ elapsed = 0
    /\ polledIds = {}
    /\ lastSubmit = <<>>
    /\ pollLog = <<>>
    /\ outcome = NoOutcome
    /\ injected = NoInjection
    /\ cancelRequested = FALSE
    /\ page = NoPage
    /\ extracted = NotExtracted
    /\ api_key = API_KEY
    /\ calls = [c \in Calls |-> NewCall]
    /\ backend \in { [script |-> <<s1, s2>>, minted |-> 0, served |-> <<0, 0>>] :
                       s1 \in Scripts, s2 \in Scripts }

\* What no step of a concurrent call writes: the variables of the one-call
\* runs, the crawler's, and self.api_key.
ConcurrentUnchanged ==
    UNCHANGED <<adapter, op, pc, captcha_id, submitTries, pollTries, nSubmitReq,
                nSubmitOk, nPollReq, nOtherReq, nSleeps, elapsed, polledIds,
                lastSubmit, pollLog, outcome, injected, cancelRequested,
                crawlVars, api_key>>

\* Call c enters solve_recaptcha / solve_geetest.
CallBegins(c, o) ==
    /\ calls[c].pc = "idle"
    /\ calls' = [calls EXCEPT ![c].pc = "submit", ![c].op = o]
    /\ UNCHANGED backend
    /\ ConcurrentUnchanged

\* Call c submits; the backend accepts under the next job id.
CallSubmits(c) ==
    /\ calls[c].pc = "submit"
    /\ backend.minted < Len(Ids)
    /\ LET id == Ids[backend.minted + 1]
           r == SubmitAttempt(adapter, AcceptedAs(adapter, id))
       IN  /\ backend' = [backend EXCEPT !.minted = @ + 1]
           /\ calls' = [calls EXCEPT ![c].pc = IF r.act = "return" THEN "poll" ELSE "done",
                                     ![c].captcha_id = r.v.s,
                                     ![c].outcome = IF r.act = "return" THEN NoOutcome
                                                    ELSE Raised(r.err, <<>>, "submit")]
    /\ ConcurrentUnchanged

\* One round of the poll loop of call c, and on a result the rest of the
\* solve method.
CallPolls(c) ==
    /\ calls[c].pc = "poll"
    /\ LET id == PollJobId(c)
           k == IdIndex(id)
           kind == ScriptAnswer(backend.script[k], backend.served[k] + 1)
           body == BodyFor(adapter, calls[c].op, kind, id)
           r == PollRound(adapter, body)
           transient == r.act = "raise" /\ Retryable(r.err)
           retry == transient /\ ~GiveUp(calls[c].tries)
           typed == TypedResponse(adapter, calls[c].op, r.v)
       IN  /\ backend' = [backend EXCEPT !.served[k] = @ + 1]
           /\ calls' = [calls EXCEPT
                  ![c].polled = @ \cup {id},
                  ![c].nPolls = @ + 1,
                  ![c].tries = IF transient THEN @ + 1 ELSE @,
                  ![c].pc = IF r.act = "sleep" \/ retry THEN "poll" ELSE "done",
                  ![c].outcome = IF r.act = "sleep" \/ retry THEN NoOutcome
                                 ELSE IF r.act = "raise" THEN Raised(r.err, body, "poll")
                                 ELSE IF typed.act = "raise"
                                      THEN Raised(typed.err, body, "parse")
                                 ELSE Returned(typed.v)]
    /\ ConcurrentUnchanged

CallSolvesRecaptcha == \E c \in Calls : CallBegins(c, "recaptcha")
CallSolvesGeetest == \E c \in Calls : CallBegins(c, "geetest")
ACallSubmits == \E c \in Calls : CallSubmits(c)
ACallPolls == \E c \in Calls : CallPolls(c)

NextConcurrent == CallSolvesRecaptcha \/ CallSolvesGeetest \/ ACallSubmits \/ ACallPolls

ConcurrentSpec == InitConcurrent /\ [][NextConcurrent]_vars

\* What a call of operation o ends with when it runs alone and its polls for
\* job id `id` are answered by `script`, from the n-th answer on with `tries`
\* attempts failed.
RECURSIVE AloneFrom(_, _, _, _, _, _)
AloneFrom(a, o, id, script, n, tries) ==
    LET body == BodyFor(a, o, ScriptAnswer(script, n), id)
        r == PollRound(a, body)
        typed == TypedResponse(a, o, r.v)
    IN  IF r.act = "sleep" THEN AloneFrom(a, o, id, script, n + 1, tries)
        ELSE IF r.act = "raise" /\ Retryable(r.err) /\ ~GiveUp(tries)
             THEN AloneFrom(a, o, id, script, n + 1, tries + 1)
        ELSE IF r.act = "raise" THEN Raised(r.err, body, "poll")
        ELSE IF typed.act = "raise" THEN Raised(typed.err, body, "parse")
        ELSE Returned(typed.v)

AloneOutcome(a, o, id) == AloneFrom(a, o, id, backend.script[IdIndex(id)], 1, 0)

\* C15: concurrent solve calls on one instance share nothing they write:
\* self.api_key keeps the value it was constructed with, each call polls only
\* with the job id its own submit returned (and no two calls have the same),
\* and under every interleaving a call ends as it would alone, given the same
\* answers for its job id.
C15_CallsIndependent ==
    /\ api_key = API_KEY
    /\ \A c \in Calls :
          /\ calls[c].polled \subseteq {calls[c].captcha_id}
          /\ calls[c].pc \in {"poll", "done"} => calls[c].captcha_id /= <<>>
          /\ calls[c].pc = "done"
                => calls[c].outcome
                     = AloneOutcome(adapter, calls[c].op, calls[c].captcha_id)
    /\ \A c, e \in Calls :
          (c /= e /\ calls[c].captcha_id /= <<>>)
             => calls[c].captcha_id /= calls[e].captcha_id

C15_Witness ==
    /\ calls["first"].pc = "done"
    /\ calls["first"].captcha_id = <<"2">>
    /\ calls["first"].nPolls = 2
    /\ calls["first"].outcome.kind = "return"
    /\ calls["second"].pc = "poll"
    /\ calls["second"].captcha_id = <<"1">>
    /\ calls["second"].nPolls = 1
    /\ calls["second"].tries = 1

====
